---- MODULE Spec2Model ----
(***************************************************************************)
(* Model of the lazy reference-counting memory manager of src/library.c.   *)
(*                                                                         *)
(* The heap is modelled explicitly: GCRegion and GCRef nodes live at small *)
(* integer addresses, carry the fields of the structs of src/library.h and *)
(* are linked through their next/prev fields exactly as the code links     *)
(* them.  The library functions are operators on that memory, translated   *)
(* statement by statement; every public function is one action, taken by a *)
(* caller that keeps its handles in a few variables (slot).                *)
(*                                                                         *)
(* Five specifications share the operators:                                *)
(*   Spec       the calls that change the registry, given live handles or  *)
(*              the empty sentinel;                                        *)
(*   SpecCopy   all the calls, gc_write and gc_read included, on a smaller *)
(*              registry;                                                  *)
(*   SpecStale  a caller that also keeps copies of handle values and       *)
(*              passes them after the handle was released;                 *)
(*   SpecLoop   the loop of main: gc_alloc, then gc_free of the handle;    *)
(*   SpecNoFail the calls of Spec with no calloc failing, on a heap large  *)
(*              enough for the regions a full countdown leaves behind.     *)
(* size_t is SIZE_BITS wide, so that its wrap-around is within reach.      *)
(***************************************************************************)
EXTENDS Integers, Sequences, FiniteSets, TLC

\* ---------------------------------------------------------------- bounds
\* Number of GCRegion nodes alive at once in Spec.
MaxRegions == 3
\* Number of GCRegion node addresses calloc can hand out.
HeapRegions == 11
\* Number of GCRef node addresses calloc can hand out.
MaxRefs == 2
\* Number of handle variables (GCRef *) the caller owns.
NSlots == 2
\* Largest size the caller asks gc_alloc for.
MaxSize == 1
\* Width in bits of size_t in the model (scaled down from the real width).
SIZE_BITS == 2
\* Byte values are 0 .. ByteMod-1.
ByteMod == 2
\* Where the copy functions are exercised (SpecCopy): the regions alive at
\* once, the largest size asked for, and the values rand() % 10 takes.
CopyRegions == 2
CopyMaxSize == 2
CopyRand == 1
\* The largest size asked for in the loop of main (SpecLoop).
LoopMaxSize == 0
\* The largest size asked for where no allocation fails (SpecNoFail).
BacklogMaxSize == 0
\* The regions referenced at once there.
BacklogLive == 1

\* ---------------------------------------------------------------- constants
\* gc_free reseeds next_collect with rand()%10 + 1.
RandMod == 10

Null == 0
RegionAddrs == 1..HeapRegions
RefAddrs == 1..MaxRefs
Slots == 1..NSlots
SizeMod == 2^SIZE_BITS
SIZE_MAX == SizeMod - 1
Bytes == 0..(ByteMod - 1)

VARIABLES
    GC,            \* the static struct GC: heads, counters, bytes_in_use
    next_collect,  \* the global int next_collect
    regions,       \* heap: address -> GCRegion node (allocated nodes only)
    refs,          \* heap: address -> GCRef node (allocated nodes only)
    slot,          \* the caller's handle variables
    last,          \* what the last public call returned
    status,        \* "running", or how the process ended
    expect         \* per region, the bytes the caller's writes put there

vars == <<GC, next_collect, regions, refs, slot, last, status, expect>>

\* The part of the state the library functions work on.
Mem == [GC |-> GC, regions |-> regions, refs |-> refs, status |-> status]

Min(S) == CHOOSE x \in S : \A y \in S : x <= y

Zeros(n) == [i \in 1..n |-> 0]

\* calloc hands out the lowest free node address.
FreeRegionAddr(m) == Min(RegionAddrs \ DOMAIN m.regions)
FreeRefAddr(m) == Min(RefAddrs \ DOMAIN m.refs)

\* h with key a removed / added.
Drop(h, a) == [x \in (DOMAIN h) \ {a} |-> h[x]]
Put(h, a, v) == [x \in (DOMAIN h) \cup {a} |-> IF x = a THEN v ELSE h[x]]

\* ---------------------------------------------------------------- initial state
Init ==
    /\ GC = [regions_head |-> Null, refs_head |-> Null, region_count |-> 0,
             ref_count |-> 0, bytes_in_use |-> 0]
    /\ next_collect = 0
    /\ regions = <<>>
    /\ refs = <<>>
    /\ slot = [s \in Slots |-> Null]
    /\ last = [op |-> "none", arg |-> Null, ret |-> 0, buf |-> <<>>, reclaimed |-> 0]
    /\ status = "running"
    /\ expect = <<>>

\* ---------------------------------------------------------------- library.c
\* A function's result: the memory after the call and the value returned.
Result(m, ret) == [m |-> m, ret |-> ret]

\* Whether calloc can still place a payload of `size` bytes: the payloads
\* together never exceed what size_t can address.
PayloadFits(m, size) == m.GC.bytes_in_use + size <= SIZE_MAX

\* gc_make_region without reg->size = size (calloc left the field at zero).
gc_make_region_unsized(m, size, heap) ==
    IF heap = "no_region" THEN Result(m, Null)
    ELSE IF heap = "no_payload" \/ ~PayloadFits(m, size) THEN Result(m, Null)
    ELSE
      LET reg  == FreeRegionAddr(m)
          head == m.GC.regions_head
          node == [ptr |-> reg, size |-> 0, strong_refs |-> 0,
                   next |-> head, prev |-> Null, bytes |-> Zeros(size)]
          linked == IF head # Null
                    THEN [m.regions EXCEPT ![head].prev = reg]
                    ELSE m.regions
      IN Result([m EXCEPT !.GC.bytes_in_use = (@ + size) % SizeMod,
                          !.GC.regions_head = reg,
                          !.regions = Put(linked, reg, node)],
                reg)

\* gc_make_region without GC.regions_head->prev = reg.
gc_make_region_onelink(m, size, heap) ==
    IF heap = "no_region" THEN Result(m, Null)
    ELSE IF heap = "no_payload" \/ ~PayloadFits(m, size) THEN Result(m, Null)
    ELSE
      LET reg  == FreeRegionAddr(m)
          head == m.GC.regions_head
          node == [ptr |-> reg, size |-> size, strong_refs |-> 0,
                   next |-> head, prev |-> Null, bytes |-> Zeros(size)]
      IN Result([m EXCEPT !.GC.bytes_in_use = (@ + size) % SizeMod,
                          !.GC.regions_head = reg,
                          !.regions = Put(m.regions, reg, node)],
                reg)

\* gc_make_region.  heap says which calloc of the call fails, if any.
gc_make_region(m, size, heap) ==
    IF heap = "no_region" THEN Result(m, Null)
    ELSE IF heap = "no_payload" \/ ~PayloadFits(m, size) THEN Result(m, Null)
    ELSE
      LET reg  == FreeRegionAddr(m)
          head == m.GC.regions_head
          node == [ptr |-> reg, size |-> size, strong_refs |-> 0,
                   next |-> head, prev |-> Null, bytes |-> Zeros(size)]
          linked == IF head # Null
                    THEN [m.regions EXCEPT ![head].prev = reg]
                    ELSE m.regions
      IN Result([m EXCEPT !.GC.bytes_in_use = (@ + size) % SizeMod,
                          !.GC.regions_head = reg,
                          !.regions = Put(linked, reg, node)],
                reg)

\* gc_unlink_region that leaves GC.bytes_in_use as it is.
gc_unlink_region_uncounted(m, reg) ==
    LET r == m.regions[reg] IN
    IF \/ (r.prev # Null /\ m.regions[r.prev].next # reg)
       \/ (r.next # Null /\ m.regions[r.next].prev # reg)
    THEN [m EXCEPT !.status = "exit_failure"]
    ELSE
      LET relinked ==
            IF r.prev = Null
            THEN IF r.next # Null
                 THEN [m.regions EXCEPT ![r.next].prev = Null]
                 ELSE m.regions
            ELSE IF r.next = Null
                 THEN [m.regions EXCEPT ![r.prev].next = Null]
                 ELSE [m.regions EXCEPT ![r.prev].next = r.next,
                                        ![r.next].prev = r.prev]
          head == IF r.prev = Null THEN r.next ELSE m.GC.regions_head
      IN [m EXCEPT !.GC.regions_head = head,
                   !.regions = Drop(relinked, reg)]

\* gc_unlink_region that, unlinking the head, leaves GC.regions_head null
\* instead of reg->next.
gc_unlink_region_beheading(m, reg) ==
    LET r == m.regions[reg] IN
    IF \/ (r.prev # Null /\ m.regions[r.prev].next # reg)
       \/ (r.next # Null /\ m.regions[r.next].prev # reg)
    THEN [m EXCEPT !.status = "exit_failure"]
    ELSE
      LET relinked ==
            IF r.prev = Null
            THEN IF r.next # Null
                 THEN [m.regions EXCEPT ![r.next].prev = Null]
                 ELSE m.regions
            ELSE IF r.next = Null
                 THEN [m.regions EXCEPT ![r.prev].next = Null]
                 ELSE [m.regions EXCEPT ![r.prev].next = r.next,
                                        ![r.next].prev = r.prev]
          head == IF r.prev = Null THEN Null ELSE m.GC.regions_head
      IN [m EXCEPT !.GC.regions_head = head,
                   !.GC.bytes_in_use = (@ - r.size) % SizeMod,
                   !.regions = Drop(relinked, reg)]

\* gc_unlink_region: the self-consistency check, the unlinking, the frees.
gc_unlink_region(m, reg) ==
    LET r == m.regions[reg] IN
    IF \/ (r.prev # Null /\ m.regions[r.prev].next # reg)
       \/ (r.next # Null /\ m.regions[r.next].prev # reg)
    THEN [m EXCEPT !.status = "exit_failure"]
    ELSE
      LET relinked ==
            IF r.prev = Null
            THEN IF r.next # Null
                 THEN [m.regions EXCEPT ![r.next].prev = Null]
                 ELSE m.regions
            ELSE IF r.next = Null
                 THEN [m.regions EXCEPT ![r.prev].next = Null]
                 ELSE [m.regions EXCEPT ![r.prev].next = r.next,
                                        ![r.next].prev = r.prev]
          head == IF r.prev = Null THEN r.next ELSE m.GC.regions_head
      IN [m EXCEPT !.GC.regions_head = head,
                   !.GC.bytes_in_use = (@ - r.size) % SizeMod,
                   !.regions = Drop(relinked, reg)]

\* gc_make_ref that forgets reg->strong_refs++.
gc_make_ref_uncounted(m, reg, ok) ==
    IF reg = Null \/ ~ok THEN Result(m, Null)
    ELSE
      LET ref  == FreeRefAddr(m)
          head == m.GC.refs_head
          node == [region |-> reg, next |-> head, prev |-> Null]
          linked == IF head # Null
                    THEN [m.refs EXCEPT ![head].prev = ref]
                    ELSE m.refs
      IN Result([m EXCEPT !.GC.refs_head = ref,
                          !.GC.ref_count = (@ + 1) % SizeMod,
                          !.refs = Put(linked, ref, node)],
                ref)

\* gc_make_ref.  ok says whether the calloc of the GCRef node succeeds.
gc_make_ref(m, reg, ok) ==
    IF reg = Null THEN Result(m, Null)
    ELSE IF ~ok THEN Result(m, Null)
    ELSE
      LET ref  == FreeRefAddr(m)
          head == m.GC.refs_head
          node == [region |-> reg, next |-> head, prev |-> Null]
          linked == IF head # Null
                    THEN [m.refs EXCEPT ![head].prev = ref]
                    ELSE m.refs
      IN Result([m EXCEPT !.GC.refs_head = ref,
                          !.GC.ref_count = (@ + 1) % SizeMod,
                          !.refs = Put(linked, ref, node),
                          !.regions[reg].strong_refs = (@ + 1) % SizeMod],
                ref)

\* gc_unlink_ref: the self-consistency check, the unlinking, the free.
gc_unlink_ref(m, ref) ==
    LET r == m.refs[ref] IN
    IF \/ (r.prev # Null /\ m.refs[r.prev].next # ref)
       \/ (r.next # Null /\ m.refs[r.next].prev # ref)
    THEN [m EXCEPT !.status = "exit_failure"]
    ELSE
      LET relinked ==
            IF r.prev = Null
            THEN IF r.next # Null
                 THEN [m.refs EXCEPT ![r.next].prev = Null]
                 ELSE m.refs
            ELSE IF r.next = Null
                 THEN [m.refs EXCEPT ![r.prev].next = Null]
                 ELSE [m.refs EXCEPT ![r.prev].next = r.next,
                                     ![r.next].prev = r.prev]
          head == IF r.prev = Null THEN r.next ELSE m.GC.refs_head
      IN [m EXCEPT !.GC.refs_head = head,
                   !.refs = Drop(relinked, ref)]

\* gc_alloc.
gc_alloc(m, size, heap) ==
    LET r == gc_make_region(m, size, heap) IN
    IF r.ret = Null THEN Result(m, Null)
    ELSE gc_make_ref(r.m, r.ret, heap # "no_ref")

\* gc_new_ref.
gc_new_ref(m, ref, ok) ==
    IF ref = Null THEN Result(m, Null)
    ELSE IF m.refs[ref].region = Null THEN Result(m, Null)
    ELSE gc_make_ref(m, m.refs[ref].region, ok)

\* The loop of gc_collect testing strong_refs <= 1 in place of == 0.
RECURSIVE gc_collect_loop_eager(_, _, _, _)
gc_collect_loop_eager(m, cur, visits, fuel) ==
    IF cur = Null THEN [m |-> m, done |-> TRUE, visits |-> visits]
    ELSE IF fuel = 0 THEN [m |-> m, done |-> FALSE, visits |-> visits]
    ELSE
      LET next == m.regions[cur].next
          seen == [visits EXCEPT ![cur] = @ + 1]
      IN IF m.regions[cur].strong_refs <= 1
         THEN LET u == gc_unlink_region(m, cur) IN
              IF u.status # "running"
              THEN [m |-> u, done |-> TRUE, visits |-> seen]
              ELSE gc_collect_loop_eager(u, u.GC.regions_head, seen, fuel - 1)
         ELSE gc_collect_loop_eager(m, next, seen, fuel - 1)

\* The loop of gc_collect leaving (break) after the first region it unlinks.
RECURSIVE gc_collect_loop_once(_, _, _, _)
gc_collect_loop_once(m, cur, visits, fuel) ==
    IF cur = Null THEN [m |-> m, done |-> TRUE, visits |-> visits]
    ELSE IF fuel = 0 THEN [m |-> m, done |-> FALSE, visits |-> visits]
    ELSE
      LET next == m.regions[cur].next
          seen == [visits EXCEPT ![cur] = @ + 1]
      IN IF m.regions[cur].strong_refs = 0
         THEN [m |-> gc_unlink_region(m, cur), done |-> TRUE, visits |-> seen]
         ELSE gc_collect_loop_once(m, next, seen, fuel - 1)

\* The loop of gc_collect going on, after an unlink, from the node after the
\* one saved in next.
RECURSIVE gc_collect_loop_skipping(_, _, _, _)
gc_collect_loop_skipping(m, cur, visits, fuel) ==
    IF cur = Null THEN [m |-> m, done |-> TRUE, visits |-> visits]
    ELSE IF fuel = 0 THEN [m |-> m, done |-> FALSE, visits |-> visits]
    ELSE
      LET next == m.regions[cur].next
          seen == [visits EXCEPT ![cur] = @ + 1]
      IN IF m.regions[cur].strong_refs = 0
         THEN LET u == gc_unlink_region(m, cur) IN
              IF u.status # "running"
              THEN [m |-> u, done |-> TRUE, visits |-> seen]
              ELSE gc_collect_loop_skipping(
                      u, IF next = Null THEN Null ELSE u.regions[next].next, seen, fuel - 1)
         ELSE gc_collect_loop_skipping(m, next, seen, fuel - 1)

\* The while loop of gc_collect, from the state (m, cur).  fuel bounds the
\* iterations the model follows; done tells whether the loop left by cur == NULL.
\* visits counts, per region address, the times the loop examined it.
RECURSIVE gc_collect_loop(_, _, _, _)
gc_collect_loop(m, cur, visits, fuel) ==
    IF cur = Null THEN [m |-> m, done |-> TRUE, visits |-> visits]
    ELSE IF fuel = 0 THEN [m |-> m, done |-> FALSE, visits |-> visits]
    ELSE
      LET next == m.regions[cur].next
          seen == [visits EXCEPT ![cur] = @ + 1]
      IN IF m.regions[cur].strong_refs = 0
         THEN LET u == gc_unlink_region(m, cur) IN
              IF u.status # "running"
              THEN [m |-> u, done |-> TRUE, visits |-> seen]
              ELSE gc_collect_loop(u, u.GC.regions_head, seen, fuel - 1)
         ELSE gc_collect_loop(m, next, seen, fuel - 1)

\* More iterations than the loop can need on a list of this length.
CollectFuel(m) == (Cardinality(DOMAIN m.regions) + 1) * (Cardinality(DOMAIN m.regions) + 1)

\* gc_collect.
gc_collect(m) ==
    gc_collect_loop(m, m.GC.regions_head, [a \in RegionAddrs |-> 0], CollectFuel(m))

\* gc_free sweeping already when the countdown is 1 (if (next_collect <= 1)).
gc_free_early(m, sl, nc, ref_, rnd) ==
    IF ref_ = Null
    THEN [m |-> m, slot |-> sl, next_collect |-> nc, swept |-> FALSE]
    ELSE IF sl[ref_] = Null
    THEN [m |-> m, slot |-> sl, next_collect |-> nc, swept |-> FALSE]
    ELSE
      LET ref == sl[ref_]
          dec == [m EXCEPT !.regions[m.refs[ref].region].strong_refs = (@ - 1) % SizeMod]
          u   == gc_unlink_ref(dec, ref)
          z   == [sl EXCEPT ![ref_] = Null]
      IN IF nc <= 1
         THEN [m |-> gc_collect(u).m, slot |-> z, next_collect |-> rnd + 1, swept |-> TRUE]
         ELSE [m |-> u, slot |-> z, next_collect |-> nc - 1, swept |-> FALSE]

\* gc_free running the countdown before it tests *ref_.
gc_free_counting(m, sl, nc, ref_, rnd) ==
    IF ref_ = Null
    THEN [m |-> m, slot |-> sl, next_collect |-> nc, swept |-> FALSE]
    ELSE
      LET ref == sl[ref_]
          u   == IF ref = Null THEN m
                 ELSE gc_unlink_ref(
                        [m EXCEPT !.regions[m.refs[ref].region].strong_refs = (@ - 1) % SizeMod],
                        ref)
          z   == [sl EXCEPT ![ref_] = Null]
      IN IF nc = 0
         THEN [m |-> gc_collect(u).m, slot |-> z, next_collect |-> rnd + 1, swept |-> TRUE]
         ELSE [m |-> u, slot |-> z, next_collect |-> nc - 1, swept |-> FALSE]

\* gc_free reseeding the countdown with rand() % 10, without the + 1.
gc_free_unseeded(m, sl, nc, ref_, rnd) ==
    IF ref_ = Null
    THEN [m |-> m, slot |-> sl, next_collect |-> nc, swept |-> FALSE]
    ELSE IF sl[ref_] = Null
    THEN [m |-> m, slot |-> sl, next_collect |-> nc, swept |-> FALSE]
    ELSE
      LET ref == sl[ref_]
          dec == [m EXCEPT !.regions[m.refs[ref].region].strong_refs = (@ - 1) % SizeMod]
          u   == gc_unlink_ref(dec, ref)
          z   == [sl EXCEPT ![ref_] = Null]
      IN IF nc = 0
         THEN [m |-> gc_collect(u).m, slot |-> z, next_collect |-> rnd, swept |-> TRUE]
         ELSE [m |-> u, slot |-> z, next_collect |-> nc - 1, swept |-> FALSE]

\* gc_free reseeding the countdown with rand() % 10 + 2.
gc_free_late(m, sl, nc, ref_, rnd) ==
    IF ref_ = Null
    THEN [m |-> m, slot |-> sl, next_collect |-> nc, swept |-> FALSE]
    ELSE IF sl[ref_] = Null
    THEN [m |-> m, slot |-> sl, next_collect |-> nc, swept |-> FALSE]
    ELSE
      LET ref == sl[ref_]
          dec == [m EXCEPT !.regions[m.refs[ref].region].strong_refs = (@ - 1) % SizeMod]
          u   == gc_unlink_ref(dec, ref)
          z   == [sl EXCEPT ![ref_] = Null]
      IN IF nc = 0
         THEN [m |-> gc_collect(u).m, slot |-> z, next_collect |-> rnd + 2, swept |-> TRUE]
         ELSE [m |-> u, slot |-> z, next_collect |-> nc - 1, swept |-> FALSE]

\* gc_free reseeding the countdown at zero without calling gc_collect.
gc_free_unswept(m, sl, nc, ref_, rnd) ==
    IF ref_ = Null
    THEN [m |-> m, slot |-> sl, next_collect |-> nc, swept |-> FALSE]
    ELSE IF sl[ref_] = Null
    THEN [m |-> m, slot |-> sl, next_collect |-> nc, swept |-> FALSE]
    ELSE
      LET ref == sl[ref_]
          dec == [m EXCEPT !.regions[m.refs[ref].region].strong_refs = (@ - 1) % SizeMod]
          u   == gc_unlink_ref(dec, ref)
          z   == [sl EXCEPT ![ref_] = Null]
      IN IF nc = 0
         THEN [m |-> u, slot |-> z, next_collect |-> rnd + 1, swept |-> FALSE]
         ELSE [m |-> u, slot |-> z, next_collect |-> nc - 1, swept |-> FALSE]

\* gc_free on the handle variable ref_ (Null: a null GCRef **); sl are the
\* caller's handle variables, nc is next_collect, rnd is what rand() % 10 gives.
gc_free(m, sl, nc, ref_, rnd) ==
    IF ref_ = Null
    THEN [m |-> m, slot |-> sl, next_collect |-> nc, swept |-> FALSE]
    ELSE IF sl[ref_] = Null
    THEN [m |-> m, slot |-> sl, next_collect |-> nc, swept |-> FALSE]
    ELSE
      LET ref == sl[ref_]
          dec == [m EXCEPT !.regions[m.refs[ref].region].strong_refs = (@ - 1) % SizeMod]
          u   == gc_unlink_ref(dec, ref)
          z   == [sl EXCEPT ![ref_] = Null]
      IN IF u.status # "running"
         THEN [m |-> u, slot |-> sl, next_collect |-> nc, swept |-> FALSE]
         ELSE IF nc = 0
         THEN [m |-> gc_collect(u).m, slot |-> z, next_collect |-> rnd + 1, swept |-> TRUE]
         ELSE [m |-> u, slot |-> z, next_collect |-> nc - 1, swept |-> FALSE]

\* A caller's buffer: addr is Null for a null pointer, bytes is what it holds.
Buffer(addr, bytes) == [addr |-> addr, bytes |-> bytes]

\* The n bytes b, b+1, ... the caller's buffers are filled with.
CallerBytes(b, n) == [i \in 1..n |-> (b + i - 1) % ByteMod]

\* memcpy(dst + doff, src + soff, n) on byte sequences; junk is what a read
\* outside src finds, a write outside dst leaves dst as it is.
memcpy(dst, doff, src, soff, n, junk) ==
    [i \in 1..Len(dst) |->
        IF i > doff /\ i <= doff + n
        THEN IF soff + i - doff \in 1..Len(src) THEN src[soff + i - doff] ELSE junk
        ELSE dst[i]]

\* The bounds check with >= in place of >.
OutOfBounds_strict(offset, nbytes, size) == (offset + nbytes) % SizeMod >= size

\* The bounds check of gc_write and gc_read: offset + nbytes in size_t.
OutOfBounds(offset, nbytes, size) == (offset + nbytes) % SizeMod > size

\* gc_write.
gc_write(m, ref, offset, src, nbytes) ==
    IF ref = Null THEN Result(m, 0)
    ELSE IF m.refs[ref].region = Null THEN Result(m, 0)
    ELSE IF m.regions[m.refs[ref].region].ptr = Null \/ src.addr = Null THEN Result(m, 0)
    ELSE
      LET reg == m.refs[ref].region
          r   == m.regions[reg]
      IN IF OutOfBounds(offset, nbytes, r.size) THEN Result(m, 0)
         ELSE Result([m EXCEPT !.regions[reg].bytes =
                                   memcpy(r.bytes, offset, src.bytes, 0, nbytes, 0)],
                     nbytes)

\* gc_read copying from r->ptr, without the offset.
gc_read_from_start(m, ref, offset, dst, nbytes, junk) ==
    IF ref = Null THEN [ret |-> 0, dst |-> dst]
    ELSE IF m.refs[ref].region = Null THEN [ret |-> 0, dst |-> dst]
    ELSE IF m.regions[m.refs[ref].region].ptr = Null \/ dst.addr = Null
    THEN [ret |-> 0, dst |-> dst]
    ELSE
      LET r == m.regions[m.refs[ref].region]
      IN IF OutOfBounds(offset, nbytes, r.size) THEN [ret |-> 0, dst |-> dst]
         ELSE [ret |-> nbytes,
               dst |-> Buffer(dst.addr, memcpy(dst.bytes, 0, r.bytes, 0, nbytes, junk))]

\* gc_read: the value returned and the destination buffer after the call.
gc_read(m, ref, offset, dst, nbytes, junk) ==
    IF ref = Null THEN [ret |-> 0, dst |-> dst]
    ELSE IF m.refs[ref].region = Null THEN [ret |-> 0, dst |-> dst]
    ELSE IF m.regions[m.refs[ref].region].ptr = Null \/ dst.addr = Null
    THEN [ret |-> 0, dst |-> dst]
    ELSE
      LET r == m.regions[m.refs[ref].region]
      IN IF OutOfBounds(offset, nbytes, r.size) THEN [ret |-> 0, dst |-> dst]
         ELSE [ret |-> nbytes,
               dst |-> Buffer(dst.addr, memcpy(dst.bytes, 0, r.bytes, offset, nbytes, junk))]

\* The addresses a list holds, from node `cur` on, following next; fuel bounds
\* the walk.
RECURSIVE Walk(_, _, _)
Walk(heap, cur, fuel) ==
    IF cur = Null \/ fuel = 0 THEN <<>>
    ELSE <<cur>> \o Walk(heap, heap[cur].next, fuel - 1)

RegionList(m) == Walk(m.regions, m.GC.regions_head, HeapRegions + 1)
RefList(m) == Walk(m.refs, m.GC.refs_head, MaxRefs + 1)

\* gc_dump_stats: the numbers it prints.
gc_dump_stats(m, nc) ==
    LET rl == RegionList(m) IN
    [regions      |-> Len(rl),
     refs         |-> Len(RefList(m)),
     bytes_in_use |-> m.GC.bytes_in_use,
     reclaimable  |-> Cardinality({i \in 1..Len(rl) : m.regions[rl[i]].strong_refs = 0}),
     next_collect |-> nc]

\* to_raw.
to_raw(m, ref) ==
    IF ref = Null THEN Null
    ELSE IF m.refs[ref].region = Null THEN Null
    ELSE m.regions[m.refs[ref].region].ptr

\* ---------------------------------------------------------------- the caller
\* Which calloc of a call fails.
HeapOutcomes == {"ok", "no_region", "no_payload", "no_ref"}

\* A handle value the caller may pass: the empty sentinel or a live GCRef.
Usable(h) == h = Null \/ h \in DOMAIN refs

\* The handle variable a returned handle is stored in: the first empty one.
HasEmptySlot == \E s \in Slots : slot[s] = Null
EmptySlot == Min({s \in Slots : slot[s] = Null})

Running == status = "running"

\* What the caller expects the payloads to hold after a call that left the
\* regions rs: zeros in a region it has not written yet, upd where it wrote.
Expected(rs, upd) ==
    [a \in DOMAIN rs |->
        IF a \in DOMAIN upd THEN upd[a]
        ELSE IF a \in DOMAIN expect THEN expect[a]
        ELSE [i \in 1..rs[a].size |-> 0]]

Store(m) ==
    /\ GC' = m.GC
    /\ regions' = m.regions
    /\ refs' = m.refs
    /\ status' = m.status

\* What the caller sees of a call: the handle it passed, the value returned,
\* the bytes handed back, and how many regions the call reclaimed.
Returned(op, arg, ret, buf, m) ==
    last' = [op |-> op, arg |-> arg, ret |-> ret, buf |-> buf,
             reclaimed |-> Cardinality((DOMAIN regions) \ DOMAIN m.regions)]

\* ---------------------------------------------------------------- actions
\* h = gc_alloc(size);  (a call that the heap lets succeed needs a free
\* GCRef address and an empty handle variable for the result)
Alloc(size, heap) ==
    /\ Running
    /\ RegionAddrs \ DOMAIN regions # {}
    /\ heap = "ok" => (HasEmptySlot /\ RefAddrs \ DOMAIN refs # {})
    /\ LET r == gc_alloc(Mem, size, heap) IN
         /\ Store(r.m)
         /\ slot' = IF r.ret = Null THEN slot ELSE [slot EXCEPT ![EmptySlot] = r.ret]
         /\ Returned("gc_alloc", Null, r.ret, <<>>, r.m)
         /\ expect' = Expected(r.m.regions, <<>>)
    /\ UNCHANGED next_collect

\* h2 = gc_new_ref(h);
NewRef(s, ok) ==
    /\ Running
    /\ HasEmptySlot
    /\ RefAddrs \ DOMAIN refs # {}
    /\ Usable(slot[s])
    /\ LET r == gc_new_ref(Mem, slot[s], ok) IN
         /\ Store(r.m)
         /\ slot' = [slot EXCEPT ![EmptySlot] = r.ret]
         /\ Returned("gc_new_ref", slot[s], r.ret, <<>>, r.m)
    /\ UNCHANGED <<next_collect, expect>>

\* gc_free(&h);  (ref_ = Null: gc_free(NULL)).  rnd is read only when the
\* countdown is reseeded.
Free(ref_, rnd) ==
    /\ Running
    /\ ref_ # Null => Usable(slot[ref_])
    /\ (ref_ = Null \/ next_collect # 0) => rnd = 0
    /\ LET r == gc_free(Mem, slot, next_collect, ref_, rnd) IN
         /\ Store(r.m)
         /\ slot' = r.slot
         /\ next_collect' = r.next_collect
         /\ expect' = Expected(r.m.regions, <<>>)
         /\ Returned("gc_free", IF ref_ = Null THEN Null ELSE slot[ref_], 0, <<>>, r.m)

\* gc_collect();
Collect ==
    /\ Running
    /\ LET r == gc_collect(Mem) IN
         /\ Store(r.m)
         /\ expect' = Expected(r.m.regions, <<>>)
         /\ Returned("gc_collect", Null, 0, <<>>, r.m)
    /\ UNCHANGED <<next_collect, slot>>

\* gc_dump_stats(out);
DumpStats ==
    /\ Running
    /\ LET d == gc_dump_stats(Mem, next_collect) IN
         Returned("gc_dump_stats", Null, 0,
                  <<d.regions, d.refs, d.bytes_in_use, d.reclaimable, d.next_collect>>, Mem)
    /\ UNCHANGED <<GC, regions, refs, status, next_collect, slot, expect>>

\* to_raw(h);
ToRaw(s) ==
    /\ Running
    /\ Usable(slot[s])
    /\ Returned("to_raw", slot[s], to_raw(Mem, slot[s]), <<>>, Mem)
    /\ UNCHANGED <<GC, regions, refs, status, next_collect, slot, expect>>

\* The calls that change the registry, by a caller that passes only live
\* handles or the empty sentinel.  (SpecCopy adds the calls that only read it.)
Next ==
    \/ \E size \in 0..MaxSize, heap \in HeapOutcomes :
          Cardinality(DOMAIN regions) < MaxRegions /\ Alloc(size, heap)
    \/ \E s \in Slots, ok \in BOOLEAN : NewRef(s, ok)
    \/ \E ref_ \in Slots \cup {Null}, rnd \in 0..(RandMod - 1) : Free(ref_, rnd)
    \/ Collect

Spec == Init /\ [][Next]_vars

\* ---------------------------------------------------------------- copying
\* gc_write(h, offset, src, nbytes);  src holds nbytes bytes, or is null.
\* (On the empty sentinel, or with a null src, every input gives the same
\* result: one is tried.)
Write(s, offset, nbytes, b, addr) ==
    /\ Running
    /\ Usable(slot[s])
    /\ (addr = Null \/ slot[s] = Null) => (offset = 0 /\ nbytes = 0 /\ b = 0)
    /\ LET r == gc_write(Mem, slot[s], offset, Buffer(addr, CallerBytes(b, nbytes)), nbytes) IN
         /\ Store(r.m)
         /\ Returned("gc_write", slot[s], r.ret, <<>>, r.m)
         /\ expect' = IF r.ret = 0 THEN expect
                      ELSE LET reg == refs[slot[s]].region IN
                           [expect EXCEPT ![reg] =
                               [i \in 1..Len(@) |->
                                   IF offset < i /\ i <= offset + nbytes
                                   THEN CallerBytes(b, nbytes)[i - offset]
                                   ELSE @[i]]]
    /\ UNCHANGED <<next_collect, slot>>

\* gc_read(h, offset, dst, nbytes);  dst has room for nbytes bytes, or is
\* null; junk is what lies outside the payload.
\* (On the empty sentinel, or with a null dst, every input gives the same
\* result: one is tried.)
Read(s, offset, nbytes, b, addr, junk) ==
    /\ Running
    /\ Usable(slot[s])
    /\ (addr = Null \/ slot[s] = Null) => (offset = 0 /\ nbytes = 0 /\ b = 0)
    /\ LET r == gc_read(Mem, slot[s], offset, Buffer(addr, CallerBytes(b, nbytes)), nbytes, junk) IN
         Returned("gc_read", slot[s], r.ret, r.dst.bytes, Mem)
    /\ UNCHANGED <<GC, regions, refs, status, next_collect, slot, expect>>

\* Offsets and lengths whose sum size_t holds.
NoWrap == {p \in (0..SIZE_MAX) \X (0..SIZE_MAX) : p[1] + p[2] <= SIZE_MAX}

\* All the calls, on a small registry, with offset + nbytes within size_t.
NextCopy ==
    \/ \E size \in 0..CopyMaxSize, heap \in HeapOutcomes :
          Cardinality(DOMAIN regions) < CopyRegions /\ Alloc(size, heap)
    \/ \E s \in Slots, ok \in BOOLEAN : NewRef(s, ok)
    \/ \E ref_ \in Slots \cup {Null}, rnd \in 0..(CopyRand - 1) : Free(ref_, rnd)
    \/ Collect
    \/ \E s \in Slots, p \in NoWrap, b \in Bytes, addr \in {Null, 1} :
          Write(s, p[1], p[2], b, addr)
    \/ \E s \in Slots, p \in NoWrap, addr \in {Null, 1} :
          Read(s, p[1], p[2], 0, addr, 0)
    \/ DumpStats
    \/ \E s \in Slots : ToRaw(s)

SpecCopy == Init /\ [][NextCopy]_vars

\* ---------------------------------------------------------------- properties
Range(q) == {q[i] : i \in 1..Len(q)}

\* The regions and references the registry lists, in list order.
ListedRegions == RegionList(Mem)
ListedRefs == RefList(Mem)

\* The listed references whose target is region a.
RefsInto(a) == {h \in Range(ListedRefs) : refs[h].region = a}

\* The caller's handle variables that hold a handle into region a.
HandlesInto(a) == {s \in Slots : slot[s] # Null /\ slot[s] \in DOMAIN refs /\ refs[slot[s]].region = a}

\* C1 (I1, refcount conservation): every listed region's strong_refs equals
\* the number of listed references whose target it is, which is also the
\* number of handles the caller has not released.
C1_RefcountConservation ==
    \A a \in Range(ListedRegions) :
        /\ regions[a].strong_refs = Cardinality(RefsInto(a))
        /\ regions[a].strong_refs = Cardinality(HandlesInto(a))

\* A release has just lowered a count: one region is down to zero references
\* and awaits the sweep while another is still referenced.
C1_Witness ==
    /\ last.op = "gc_free" /\ last.arg # Null /\ last.reclaimed = 0
    /\ \E a, b \in Range(ListedRegions) :
          regions[a].strong_refs = 0 /\ regions[b].strong_refs = 1

\* C2 (I3, no dangling reference): the target of every listed reference is a
\* listed region, so no sweep reclaimed a region that is still referenced.
C2_NoDanglingReference ==
    \A h \in Range(ListedRefs) : refs[h].region \in Range(ListedRegions)

\* A sweep (explicit or inside gc_free) has just reclaimed a region while
\* references to other regions are alive.
C2_Witness ==
    /\ last.op \in {"gc_collect", "gc_free"} /\ last.reclaimed > 0
    /\ ListedRefs # <<>>

\* No listed region of m is reclaimable.
NoneReclaimable(m) == \A a \in Range(RegionList(m)) : m.regions[a].strong_refs # 0

\* C3 (sweep completeness): from every reachable state gc_collect leaves its
\* loop (it terminates), and no region with strong_refs = 0 is listed when it
\* returns; the same holds of the state a gc_collect call has just left.
C3_SweepComplete ==
    /\ Running => LET r == gc_collect(Mem) IN r.done /\ NoneReclaimable(r.m)
    /\ last.op = "gc_collect" => NoneReclaimable(Mem)

\* gc_collect has just reclaimed two regions and left a referenced one.
C3_Witness ==
    /\ last.op = "gc_collect" /\ last.reclaimed >= 2
    /\ ListedRegions # <<>>

\* What gc_dump_stats prints in the current state.
Stats == gc_dump_stats(Mem, next_collect)

\* The step is a call of gc_free on a handle that is the only reference to
\* its region.
ReleasesOnlyRef ==
    /\ last'.op = "gc_free"
    /\ last'.arg # Null
    /\ last'.arg \in DOMAIN refs
    /\ regions[refs[last'.arg].region].strong_refs = 1

\* After the step, region a is listed with no reference and gc_dump_stats
\* counts one more reclaimable region than before, among as many regions.
AwaitsSweep(a) ==
    /\ a \in Range(ListedRegions')
    /\ regions'[a].strong_refs = 0
    /\ Stats'.regions = Stats.regions
    /\ Stats'.reclaimable = Stats.reclaimable + 1

\* C4 as stated (deferred reclamation): whenever the only reference to a
\* region is released, the region is still listed when gc_free returns and
\* gc_dump_stats counts it as reclaimable.
C4_DeferredAlways ==
    [][ReleasesOnlyRef => AwaitsSweep(refs[last'.arg].region)]_vars

\* C4 as amended: when the only reference to a region is released while the
\* countdown next_collect is not zero, the region is still listed when
\* gc_free returns and gc_dump_stats counts it as reclaimable; when the
\* countdown is zero, the sweep inside gc_free has reclaimed it by then.
C4_DeferredUnlessCountdownZero ==
    [][ReleasesOnlyRef =>
          IF next_collect # 0
          THEN AwaitsSweep(refs[last'.arg].region)
          ELSE /\ refs[last'.arg].region \notin Range(ListedRegions')
               /\ Stats'.reclaimable = 0]_vars

\* gc_free has just released the only reference to the one listed region
\* without sweeping: the region is listed and reclaimable.
C4_Witness ==
    /\ last.op = "gc_free" /\ last.arg # Null /\ last.reclaimed = 0
    /\ Len(ListedRegions) = 1
    /\ regions[ListedRegions[1]].strong_refs = 0
    /\ Stats.reclaimable = 1

\* C5 (allocation failure is atomic): whenever gc_alloc returns NULL, the
\* region list, the reference list, the counters and bytes_in_use are as they
\* were before the call.
C5_AllocFailureAtomic ==
    [][(last'.op = "gc_alloc" /\ last'.ret = Null) => UNCHANGED <<GC, regions, refs>>]_vars

\* C7 (idempotent release): gc_free(&h) leaves h holding the empty sentinel
\* (no handle variable holds the released handle any more), and gc_free on a
\* variable holding the sentinel, or on a null pointer, changes neither list,
\* no count, nor bytes_in_use, nor the countdown, and runs no sweep.
C7_IdempotentRelease ==
    [][last'.op = "gc_free" =>
          /\ last'.arg # Null => \A s \in Slots : slot'[s] # last'.arg
          /\ last'.arg = Null =>
                /\ UNCHANGED <<GC, regions, refs, next_collect, slot, status>>
                /\ last'.reclaimed = 0]_vars

\* gc_free has just been called on the empty sentinel in a state where a
\* release of a live handle would have swept a reclaimable region.
C7_Witness ==
    /\ last.op = "gc_free" /\ last.arg = Null
    /\ next_collect = 0
    /\ Stats.reclaimable > 0
    /\ \E s \in Slots : slot[s] = Null

\* ---------------------------------------------------------------- stale handles
\* GCRef *copy = h;  the caller keeps a second copy of a handle value.
KeepCopy(s, t) ==
    /\ Running
    /\ slot[s] # Null
    /\ slot[t] = Null
    /\ slot' = [slot EXCEPT ![t] = slot[s]]
    /\ UNCHANGED <<GC, regions, refs, status, next_collect, last, expect>>

\* The handle in variable s points at a GCRef node that has been freed and
\* whose address calloc has not handed out again.
Freed(s) == slot[s] # Null /\ slot[s] \notin DOMAIN refs

\* What a read of a pointer field of freed memory can give without the
\* process faulting at once: null or the address of a live region.
FreedReads == {Null} \cup DOMAIN regions

\* gc_new_ref on a freed node whose region field reads as reg.
gc_new_ref_freed(m, reg, ok) ==
    IF reg = Null THEN Result(m, Null)
    ELSE gc_make_ref(m, reg, ok)

\* The memory as a call sees it that reads the freed node ref, whose region
\* field reads as reg.
FreedView(m, ref, reg) ==
    [m EXCEPT !.refs = Put(m.refs, ref, [region |-> reg, next |-> Null, prev |-> Null])]

\* h2 = gc_new_ref(h) with h freed.
NewRefFreed(s, reg, ok) ==
    /\ Running
    /\ Freed(s)
    /\ HasEmptySlot
    /\ RefAddrs \ DOMAIN refs # {}
    /\ LET r == gc_new_ref_freed(Mem, reg, ok) IN
         /\ Store(r.m)
         /\ slot' = [slot EXCEPT ![EmptySlot] = r.ret]
         /\ Returned("gc_new_ref", slot[s], r.ret, <<>>, r.m)
    /\ UNCHANGED <<next_collect, expect>>

\* gc_free(&h) with h freed: the count of whatever region the freed node
\* names is lowered (a null region field faults there), then the links read
\* from the freed node fail the check of gc_unlink_ref (exit) or the second
\* free of the node faults.
FreeFreed(s, reg, end) ==
    /\ Running
    /\ Freed(s)
    /\ reg = Null => end = "fault"
    /\ GC' = GC
    /\ regions' = IF reg = Null THEN regions
                  ELSE [regions EXCEPT ![reg].strong_refs = (@ - 1) % SizeMod]
    /\ refs' = refs
    /\ status' = end
    /\ last' = [op |-> "gc_free", arg |-> slot[s], ret |-> 0, buf |-> <<>>, reclaimed |-> 0]
    /\ UNCHANGED <<slot, next_collect, expect>>

\* gc_write(h, ...) with h freed.
WriteFreed(s, reg, offset, nbytes, b) ==
    /\ Running
    /\ Freed(s)
    /\ LET r == gc_write(FreedView(Mem, slot[s], reg), slot[s], offset,
                         Buffer(1, CallerBytes(b, nbytes)), nbytes) IN
         /\ Store([r.m EXCEPT !.refs = refs])
         /\ Returned("gc_write", slot[s], r.ret, <<>>, r.m)
    /\ UNCHANGED <<next_collect, slot, expect>>

\* gc_read(h, ...) with h freed.
ReadFreed(s, reg, offset, nbytes, b) ==
    /\ Running
    /\ Freed(s)
    /\ LET r == gc_read(FreedView(Mem, slot[s], reg), slot[s], offset,
                        Buffer(1, CallerBytes(b, nbytes)), nbytes, 0) IN
         Returned("gc_read", slot[s], r.ret, r.dst.bytes, Mem)
    /\ UNCHANGED <<GC, regions, refs, status, next_collect, slot, expect>>

\* The calls of a caller that also keeps copies of handle values and passes
\* them after the handle was released.
NextStale ==
    \/ \E size \in 0..MaxSize, heap \in HeapOutcomes :
          Cardinality(DOMAIN regions) < CopyRegions /\ Alloc(size, heap)
    \/ \E s \in Slots, ok \in BOOLEAN : NewRef(s, ok)
    \/ \E ref_ \in Slots \cup {Null}, rnd \in 0..(CopyRand - 1) : Free(ref_, rnd)
    \/ Collect
    \/ \E s, t \in Slots : KeepCopy(s, t)
    \/ \E s \in Slots, reg \in FreedReads, ok \in BOOLEAN : NewRefFreed(s, reg, ok)
    \/ \E s \in Slots, reg \in FreedReads, end \in {"exit_failure", "fault"} :
          FreeFreed(s, reg, end)
    \/ \E s \in Slots, reg \in FreedReads, p \in NoWrap, b \in Bytes :
          WriteFreed(s, reg, p[1], p[2], b)
    \/ \E s \in Slots, reg \in FreedReads, p \in NoWrap, b \in Bytes :
          ReadFreed(s, reg, p[1], p[2], b)

SpecStale == Init /\ [][NextStale]_vars

\* The handle value h is not that of a live reference: it was released, or
\* never handed out.
Released(h) == h # Null /\ h \notin DOMAIN refs

\* C6 (I4, released handles are unusable): a call of gc_new_ref, gc_free,
\* gc_write or gc_read that is given the value of a released handle returns
\* the empty / zero result and changes no strong_refs and neither list.
C6_ReleasedHandleUnusable ==
    [][(last'.op \in {"gc_new_ref", "gc_free", "gc_write", "gc_read"} /\ Released(last'.arg)) =>
          /\ last'.ret = 0
          /\ UNCHANGED <<GC, refs>>
          /\ DOMAIN regions' = DOMAIN regions
          /\ \A a \in DOMAIN regions : regions'[a].strong_refs = regions[a].strong_refs]_vars

\* ---------------------------------------------------------------- copy properties
\* The handle variables that hold a live handle, and the region behind one.
LiveSlots == {s \in Slots : slot[s] # Null /\ slot[s] \in DOMAIN refs}
RegionOf(s) == refs[slot[s]].region
SizeOf(s) == regions[RegionOf(s)].size

\* C8 (bounds check over the full unsigned range): for every live handle and
\* every offset and nbytes size_t can hold, gc_write and gc_read return a
\* nonzero count, or change the payload or the destination, only if the
\* mathematical sum offset + nbytes is at most the region's size.
C8_BoundsCheckFullRange ==
    \A s \in LiveSlots, offset \in 0..SIZE_MAX, nbytes \in 0..SIZE_MAX, b \in Bytes :
        LET buf == Buffer(1, CallerBytes(b, nbytes))
            w   == gc_write(Mem, slot[s], offset, buf, nbytes)
            r   == gc_read(Mem, slot[s], offset, buf, nbytes, 0)
        IN (w.ret # 0 \/ w.m # Mem \/ r.ret # 0 \/ r.dst # buf) =>
              offset + nbytes <= SizeOf(s)

\* C9 (boundary, no partial copy): for a live handle to a region of size S,
\* gc_write and gc_read with offset + nbytes = S return nbytes and copy exactly
\* the nbytes bytes; with offset + nbytes = S + 1 they return 0 and leave the
\* payload, the rest of the registry and the destination buffer as they were.
C9_Boundary ==
    \A s \in LiveSlots, offset \in 0..SIZE_MAX, nbytes \in 0..SIZE_MAX, b \in Bytes :
        LET S   == SizeOf(s)
            reg == RegionOf(s)
            buf == Buffer(1, CallerBytes(b, nbytes))
            w   == gc_write(Mem, slot[s], offset, buf, nbytes)
            r   == gc_read(Mem, slot[s], offset, buf, nbytes, 0)
        IN /\ offset + nbytes = S =>
                /\ w.ret = nbytes
                /\ w.m = [Mem EXCEPT !.regions[reg].bytes =
                             [i \in 1..S |-> IF i > offset THEN buf.bytes[i - offset]
                                             ELSE regions[reg].bytes[i]]]
                /\ r.ret = nbytes
                /\ r.dst = Buffer(1, [i \in 1..nbytes |-> regions[reg].bytes[offset + i]])
           /\ offset + nbytes = S + 1 =>
                /\ w.ret = 0 /\ w.m = Mem
                /\ r.ret = 0 /\ r.dst = buf

\* A gc_write of a whole payload (offset 0, nbytes = size > 0) has just
\* succeeded: the boundary case offset + nbytes = size.
C9_Witness ==
    /\ last.op = "gc_write" /\ last.ret > 0
    /\ last.arg \in DOMAIN refs
    /\ regions[refs[last.arg].region].size = last.ret

\* C10 (write/read round trip): for a live handle to a region of size S and
\* offset + nbytes <= S, reading nbytes bytes at offset through any live handle
\* to the region, right after writing bytes B there, returns B; and in every
\* reachable state, whatever calls came in between, a read returns what the
\* caller's earlier writes put at those positions, zeros where it never wrote.
C10_RoundTrip ==
    \A s \in LiveSlots, offset \in 0..SIZE_MAX, nbytes \in 0..SIZE_MAX, b \in Bytes :
        offset + nbytes <= SizeOf(s) =>
            LET B   == CallerBytes(b, nbytes)
                dst == Buffer(1, CallerBytes(b + 1, nbytes))
                w   == gc_write(Mem, slot[s], offset, Buffer(1, B), nbytes)
            IN /\ w.ret = nbytes
               /\ \A t \in LiveSlots :
                     RegionOf(t) = RegionOf(s) =>
                        gc_read(w.m, slot[t], offset, dst, nbytes, 0)
                           = [ret |-> nbytes, dst |-> Buffer(1, B)]
               /\ gc_read(Mem, slot[s], offset, dst, nbytes, 0)
                     = [ret |-> nbytes,
                        dst |-> Buffer(1, [i \in 1..nbytes |-> expect[RegionOf(s)][offset + i]])]

\* gc_read has just handed back bytes that are not all zero, so bytes an
\* earlier gc_write put into the payload, through a handle that is one of two
\* to the region.
C10_Witness ==
    /\ last.op = "gc_read" /\ last.ret > 0
    /\ \E i \in 1..Len(last.buf) : last.buf[i] # 0
    /\ last.arg \in DOMAIN refs
    /\ regions[refs[last.arg].region].strong_refs = 2

\* ---------------------------------------------------------------- sweep policy
\* The step is a call of gc_free on a live handle.
ReleasesLive ==
    /\ last'.op = "gc_free"
    /\ last'.arg # Null
    /\ last'.arg \in DOMAIN refs

\* After the step the released reference is off the reference list, which is
\* otherwise as it was, and its target has one reference less if it is still
\* listed.
CountLoweredAndUnlinked ==
    LET h == last'.arg
        a == refs[h].region
    IN /\ ListedRefs' = SelectSeq(ListedRefs, LAMBDA x : x # h)
       /\ h \notin DOMAIN refs'
       /\ a \in DOMAIN regions' => regions'[a].strong_refs = regions[a].strong_refs - 1

\* C11 (auto-sweep policy): every gc_free of a live handle lowers the target's
\* strong_refs and unlinks the reference; then, if next_collect was 0, a whole
\* sweep has run when gc_free returns (no region with strong_refs = 0 is
\* listed, so a region whose last reference was just released is gone) and
\* next_collect is reseeded within 1..10; otherwise next_collect is one less
\* and no region has been reclaimed.
C11_AutoSweepPolicy ==
    [][ReleasesLive =>
          /\ CountLoweredAndUnlinked
          /\ IF next_collect = 0
             THEN /\ NoneReclaimable(Mem')
                  /\ regions[refs[last'.arg].region].strong_refs = 1
                        => refs[last'.arg].region \notin DOMAIN regions'
                  /\ next_collect' \in 1..RandMod
             ELSE /\ next_collect' = next_collect - 1
                  /\ last'.reclaimed = 0
                  /\ DOMAIN regions' = DOMAIN regions
                  /\ ListedRegions' = ListedRegions]_vars

\* gc_free has just released a live handle with the countdown at zero: its
\* sweep reclaimed a region, another region is still referenced, and the
\* countdown was reseeded with the largest value.
C11_Witness ==
    /\ last.op = "gc_free" /\ last.arg # Null /\ last.reclaimed > 0
    /\ next_collect = RandMod
    /\ ListedRegions # <<>>

\* ---------------------------------------------------------------- the loop of main
\* GCRef *a = gc_alloc(size);  in the loop of main: the allocation succeeds
\* and a holds the new handle.
LoopAlloc(size) ==
    /\ \A s \in Slots : slot[s] = Null
    /\ Alloc(size, "ok")
    /\ last'.ret # Null

\* gc_free(&a);  in the loop of main, right after the allocation.
LoopFree(rnd) ==
    /\ slot[1] # Null
    /\ Free(1, rnd)

\* An execution that only repeats  a = gc_alloc(size); gc_free(&a);
NextLoop ==
    \/ \E size \in 0..LoopMaxSize : LoopAlloc(size)
    \/ \E rnd \in 0..(RandMod - 1) : LoopFree(rnd)

SpecLoop == Init /\ [][NextLoop]_vars

\* The sizes gc_alloc can still serve from registry m.
LoopSizes(m) ==
    {size \in 0..LoopMaxSize :
        RegionAddrs \ DOMAIN m.regions # {} /\ gc_alloc(m, size, "ok").ret # Null}

\* What rand() % 10 can give where gc_free reads it (countdown nc at zero).
LoopRands(nc) == IF nc = 0 THEN 0..(RandMod - 1) ELSE {0}

\* One iteration from registry m and countdown nc, the caller's handle
\* variables all empty.
LoopIteration(m, nc, size, rnd) ==
    LET a == gc_alloc(m, size, "ok")
    IN gc_free(a.m, [s \in Slots |-> IF s = 1 THEN a.ret ELSE Null], nc, 1, rnd)

\* Whatever sizes are asked for and whatever rand() gives, gc_dump_stats
\* reports reclaimable = 0 after one of the next n iterations from (m, nc).
RECURSIVE EmptiesWithin(_, _, _)
EmptiesWithin(m, nc, n) ==
    /\ n > 0
    /\ \A size \in LoopSizes(m), rnd \in LoopRands(nc) :
          \A f \in {LoopIteration(m, nc, size, rnd)} :
             \/ gc_dump_stats(f.m, f.next_collect).reclaimable = 0
             \/ EmptiesWithin(f.m, f.next_collect, n - 1)

\* The same from the current state, where the iteration under way (if the
\* handle is allocated and not yet released) is the first of the n.
EmptiesWithinFromHere(n) ==
    IF slot[1] = Null THEN EmptiesWithin(Mem, next_collect, n)
    ELSE \A rnd \in LoopRands(next_collect) :
            \A f \in {gc_free(Mem, slot, next_collect, 1, rnd)} :
               \/ gc_dump_stats(f.m, f.next_collect).reclaimable = 0
               \/ EmptiesWithin(f.m, f.next_collect, n - 1)

\* C12 (auto-sweep convergence): in an execution that only repeats gc_alloc
\* followed by gc_free of the new handle, with no gc_collect call, from every
\* state the number of reclaimable regions is 0 after at most 11 (RandMod + 1)
\* further iterations, whatever values the countdown is reseeded with; so it
\* is 0 again and again for as long as the loop runs.
C12_AutoSweepConvergence == EmptiesWithinFromHere(RandMod + 1)

\* The loop has left the most regions behind that it can: RandMod reclaimable
\* regions are listed and the next release sweeps.
C12_Witness ==
    /\ last.op = "gc_free" /\ last.arg # Null
    /\ Stats.reclaimable = RandMod
    /\ next_collect = 0

\* ---------------------------------------------------------------- sweep properties
\* C13 (sweep idempotence): from every reachable state, a second gc_collect
\* right after a first leaves the registry (both lists, every count,
\* bytes_in_use) as the first left it, and gc_collect called in the state a
\* gc_collect call has just left changes nothing; next_collect is not
\* touched by either call.
C13_SweepIdempotent ==
    /\ Running => \A once \in {gc_collect(Mem)} :
                     /\ gc_collect(once.m).m = once.m
                     /\ RegionList(gc_collect(once.m).m) = RegionList(once.m)
                     /\ RefList(gc_collect(once.m).m) = RefList(once.m)
    /\ (Running /\ last.op = "gc_collect") => gc_collect(Mem).m = Mem

\* gc_collect has just reclaimed a region and left two referenced ones: the
\* state the second of two calls in a row starts from.
C13_Witness ==
    /\ last.op = "gc_collect" /\ last.reclaimed >= 1
    /\ Len(ListedRegions) = 2

\* ---------------------------------------------------------------- accounting
\* The sum of the sizes of the regions of m at the addresses in q.
RECURSIVE SumSizes(_, _)
SumSizes(m, q) ==
    IF q = <<>> THEN 0 ELSE m.regions[Head(q)].size + SumSizes(m, Tail(q))

\* The listed regions of m that a sweep reclaims, in list order.
Reclaimable(m) == SelectSeq(RegionList(m), LAMBDA a : m.regions[a].strong_refs = 0)

\* C14 (bytes-in-use accounting): in every reachable state GC.bytes_in_use
\* is the sum of the sizes of the listed regions, and gc_collect lowers it by
\* the sizes of the regions it reclaims (by S after the only reference to a
\* region of size S was released).
C14_BytesInUse ==
    /\ GC.bytes_in_use = SumSizes(Mem, ListedRegions)
    /\ Running => gc_collect(Mem).m.GC.bytes_in_use
                     = GC.bytes_in_use - SumSizes(Mem, Reclaimable(Mem))

\* The only reference to a region of a size above zero has just been released
\* without a sweep, while another such region is still referenced: the next
\* gc_collect reclaims the first and its bytes.
C14_Witness ==
    /\ last.op = "gc_free" /\ last.arg # Null /\ last.reclaimed = 0
    /\ \E a, b \in Range(ListedRegions) :
          /\ regions[a].strong_refs = 0 /\ regions[a].size > 0
          /\ regions[b].strong_refs > 0 /\ regions[b].size > 0

\* ---------------------------------------------------------------- allocation
\* What a successful gc_alloc(size) that returned ret made of registry m: n.
AllocPostcondition(m, size, ret, n) ==
    LET reg == n.GC.regions_head IN
    /\ RegionList(n) = <<reg>> \o RegionList(m)
    /\ reg \notin DOMAIN m.regions
    /\ n.regions[reg].size = size
    /\ n.regions[reg].strong_refs = 1
    /\ RefList(n) = <<ret>> \o RefList(m)
    /\ ret \notin DOMAIN m.refs
    /\ n.refs[ret].region = reg
    /\ \A a \in DOMAIN m.regions :
          /\ n.regions[a].strong_refs = m.regions[a].strong_refs
          /\ n.regions[a].size = m.regions[a].size
          /\ n.regions[a].bytes = m.regions[a].bytes
    /\ \A h \in DOMAIN m.refs : n.refs[h].region = m.refs[h].region

\* C15 (allocation postcondition): a successful gc_alloc(size), from any
\* reachable state and for any size, adds exactly one region, of that size
\* and with strong_refs 1, at the head of the region list and exactly one
\* reference to it at the head of the reference list, and changes no other
\* region's strong_refs, size or payload and no other reference's target; the
\* state a successful gc_alloc has just left has the returned reference and
\* its region at the heads.
C15_AllocPostcondition ==
    /\ (Running /\ RefAddrs \ DOMAIN refs # {}) =>
          \A size \in 0..SIZE_MAX :
             \A r \in {gc_alloc(Mem, size, "ok")} :
                r.ret # Null => AllocPostcondition(Mem, size, r.ret, r.m)
    /\ (last.op = "gc_alloc" /\ last.ret # Null) =>
          /\ GC.refs_head = last.ret
          /\ refs[last.ret].region = GC.regions_head
          /\ regions[GC.regions_head].strong_refs = 1
          /\ regions[GC.regions_head].bytes = Zeros(regions[GC.regions_head].size)

\* gc_alloc has just succeeded with a size above zero in a registry that
\* already held a reclaimable region and a referenced one.
C15_Witness ==
    /\ last.op = "gc_alloc" /\ last.ret # Null
    /\ Len(ListedRegions) = 3 /\ Len(ListedRefs) = 2
    /\ regions[GC.regions_head].size > 0
    /\ \E a \in Range(ListedRegions) : regions[a].strong_refs = 0

\* C16 (aggregate count bookkeeping): in every reachable state
\* GC.region_count is the length of the region list and GC.ref_count is the
\* length of the reference list.
C16_CountBookkeeping ==
    /\ GC.region_count = Len(ListedRegions)
    /\ GC.ref_count = Len(ListedRefs)

\* C17 (single-pass sweep): from every reachable state, one gc_collect call
\* examines (tests strong_refs of) each region listed at its start at most
\* once.
C17_SinglePassSweep ==
    Running => \A a \in Range(ListedRegions) : gc_collect(Mem).visits[a] <= 1

\* ---------------------------------------------------------------- frame
\* The listed regions a sweep leaves: those with a reference, in list order.
Survivors == SelectSeq(ListedRegions, LAMBDA a : regions[a].strong_refs # 0)

\* C18 (read-only operations have no registry effect): a call of
\* gc_dump_stats, to_raw or gc_read, with the empty sentinel or any live
\* handle, leaves both lists, every strong_refs, bytes_in_use, the payloads
\* and next_collect as they were; a call of gc_collect leaves the reference
\* list and next_collect as they were and every region with a reference
\* listed, in the same order, with its size, strong_refs and payload.
C18_ReadOnlyFrame ==
    [][/\ last'.op \in {"gc_dump_stats", "to_raw", "gc_read"} =>
             UNCHANGED <<GC, regions, refs, next_collect, slot, status>>
       /\ last'.op = "gc_collect" =>
             /\ UNCHANGED <<refs, next_collect, slot>>
             /\ GC'.refs_head = GC.refs_head
             /\ ListedRegions' = Survivors
             /\ \A a \in Range(Survivors) :
                   /\ regions'[a].size = regions[a].size
                   /\ regions'[a].strong_refs = regions[a].strong_refs
                   /\ regions'[a].bytes = regions[a].bytes]_vars

\* gc_collect has just reclaimed the head of the region list and left the
\* region behind it, which the caller had written to.
C18_Witness ==
    /\ last.op = "gc_collect" /\ last.reclaimed = 1
    /\ Len(ListedRegions) = 1
    /\ \E i \in 1..regions[GC.regions_head].size : regions[GC.regions_head].bytes[i] # 0
    /\ GC.regions_head = 1

\* ---------------------------------------------------------------- backlog
\* The calls that change the registry, none of whose callocs fails.
NextNoFail ==
    \/ \E size \in 0..BacklogMaxSize :
          /\ Cardinality({a \in DOMAIN regions : regions[a].strong_refs # 0}) < BacklogLive
          /\ Alloc(size, "ok")
          /\ last'.ret # Null
    \/ \E s \in Slots : NewRef(s, TRUE)
    \/ \E ref_ \in Slots \cup {Null}, rnd \in 0..(RandMod - 1) : Free(ref_, rnd)
    \/ Collect

SpecNoFail == Init /\ [][NextNoFail]_vars

\* C19 (bounded garbage backlog): in every state reachable by gc_alloc,
\* gc_new_ref, gc_free and gc_collect calls none of whose allocations fails,
\* the number of reclaimable regions plus next_collect is at most 10 (RandMod),
\* and next_collect lies in 0..10.
C19_BoundedBacklog ==
    /\ Stats.reclaimable + next_collect <= RandMod
    /\ next_collect \in 0..RandMod

\* The backlog is full: RandMod reclaimable regions are listed, with the
\* countdown at zero, beside a region that has two references.
C19_Witness ==
    /\ Stats.reclaimable = RandMod
    /\ next_collect = 0
    /\ Stats.regions = RandMod + 1
    /\ Stats.refs = 2

\* ---------------------------------------------------------------- list integrity
\* The list q of nodes of heap, walked from head, is a well-formed doubly
\* linked list: its nodes are allocated, none appears twice, the walk ends at
\* a null next, the head has no predecessor and every node's successor points
\* back to it.
WellFormed(heap, head, q) ==
    /\ Range(q) \subseteq DOMAIN heap
    /\ Cardinality(Range(q)) = Len(q)
    /\ head = Null <=> q = <<>>
    /\ q # <<>> =>
          /\ q[1] = head
          /\ heap[q[1]].prev = Null
          /\ heap[q[Len(q)]].next = Null
    /\ \A i \in 1..(Len(q) - 1) :
          /\ heap[q[i]].next = q[i + 1]
          /\ heap[q[i + 1]].prev = q[i]

\* C20 (list integrity): under any sequence of calls given live handles or
\* the empty sentinel, the region list and the reference list are well-formed
\* doubly linked lists, the check of gc_unlink_region and gc_unlink_ref
\* passes for every listed node, and the process has not left by
\* exit(EXIT_FAILURE).
C20_ListIntegrity ==
    /\ WellFormed(regions, GC.regions_head, ListedRegions)
    /\ WellFormed(refs, GC.refs_head, ListedRefs)
    /\ \A a \in Range(ListedRegions) : gc_unlink_region(Mem, a).status = "running"
    /\ \A h \in Range(ListedRefs) : gc_unlink_ref(Mem, h).status = "running"
    /\ status = "running"

\* gc_collect has just unlinked a region from the middle of the list: the
\* regions allocated before and after it are the two still listed.
C20_Witness ==
    /\ last.op = "gc_collect" /\ last.reclaimed = 1
    /\ ListedRegions = <<3, 1>>

====
